---- MODULE Spec2Model ----
(***************************************************************************)
(* Model of the Stock Analysis API (backend/server.py): the chat turn, the *)
(* candlestick analysis turn and the two history reads, over the two      *)
(* MongoDB collections chat_messages and candlestick_analyses.            *)
(*                                                                         *)
(* Text values that the code inspects (content types, model responses,    *)
(* error messages, ISO timestamps) are tuples of one-character strings,   *)
(* so that startswith, the `in` substring test, lower(), capitalize(),    *)
(* isoformat() and the store's string ordering are computed, not assumed. *)
(* Values the code only copies (session ids, chat messages, filenames)    *)
(* are opaque strings.                                                     *)
(*                                                                         *)
(* Each handler is cut at its awaits on the network: the provider call    *)
(* (chat.send_message) and the store write (insert_one).  Several          *)
(* requests may be in flight at once; `last` holds the request that       *)
(* completed most recently, with its inputs and its response.             *)
(***************************************************************************)
EXTENDS Integers, Sequences, FiniteSets, TLC

VARIABLES
    chat_messages,          \* db.chat_messages, in insertion order
    candlestick_analyses,   \* db.candlestick_analyses, in insertion order
    inflight,               \* the requests suspended at an await, by slot
    last,                   \* the request that completed most recently
    received,               \* number of requests received since the start of the run
    clock,                  \* the last reading of the clock, in half seconds
    nextId,                 \* source of uuid4 values
    providerCalls,          \* number of chat.send_message calls issued
    handles,                \* LlmChat objects constructed, per session id
    env                     \* process configuration, fixed at start

vars == <<chat_messages, candlestick_analyses, inflight, last, received,
          clock, nextId, providerCalls, handles, env>>

----------------------------------------------------------------------------
(* Bounds *)

MaxRequests == 2      \* requests received in a run of Spec
MaxInFlight == 2      \* requests suspended at an await at the same time
MaxTicks == 1         \* clock advances in a run
BulkRequests == 1     \* requests received in a run of SpecBulk
BulkExtra == 1        \* how far a pre-filled session exceeds a read limit

----------------------------------------------------------------------------
(* Text helpers *)

Min(a, b) == IF a < b THEN a ELSE b

UpperChars == <<"A","B","C","D","E","F","G","H","I","J","K","L","M",
                "N","O","P","Q","R","S","T","U","V","W","X","Y","Z">>
LowerChars == <<"a","b","c","d","e","f","g","h","i","j","k","l","m",
                "n","o","p","q","r","s","t","u","v","w","x","y","z">>

UpperToLower ==
    [c \in {UpperChars[i] : i \in 1..26} |->
        LowerChars[CHOOSE i \in 1..26 : UpperChars[i] = c]]
LowerToUpper ==
    [c \in {LowerChars[i] : i \in 1..26} |->
        UpperChars[CHOOSE i \in 1..26 : LowerChars[i] = c]]

\* str.lower() on one character
LowerChar(c) == IF c \in DOMAIN UpperToLower THEN UpperToLower[c] ELSE c

\* str.upper() on one character
UpperChar(c) == IF c \in DOMAIN LowerToUpper THEN LowerToUpper[c] ELSE c

\* str.lower()
Lower(s) ==
    LET f == [i \in 1..Len(s) |-> LowerChar(s[i])]
    IN  SubSeq(f, 1, Len(s))

\* str.capitalize(): first character upper-cased, the rest lower-cased
Capitalize(s) ==
    LET f == [i \in 1..Len(s) |->
                IF i = 1 THEN UpperChar(s[i]) ELSE LowerChar(s[i])]
    IN  SubSeq(f, 1, Len(s))

\* str.startswith(prefix)
StartsWith(s, prefix) ==
    /\ Len(prefix) <= Len(s)
    /\ \A i \in 1..Len(prefix) : s[i] = prefix[i]

\* the `needle in text` substring test
Contains(text, needle) ==
    \E k \in 0..(Len(text) - Len(needle)) :
        \A i \in 1..Len(needle) : text[k + i] = needle[i]

----------------------------------------------------------------------------
(* Literals of server.py *)

ImagePrefix == <<"i","m","a","g","e","/">>

ErrorAnalyzingPrefix ==
    <<"E","r","r","o","r"," ","a","n","a","l","y","z","i","n","g"," ",
      "i","m","a","g","e",":"," ">>
ChatErrorPrefix ==
    <<"C","h","a","t"," ","s","e","r","v","i","c","e"," ",
      "e","r","r","o","r",":"," ">>
AnalysisFailedPrefix ==
    <<"A","n","a","l","y","s","i","s"," ","f","a","i","l","e","d",":"," ">>
FileMustBeImage ==
    <<"F","i","l","e"," ","m","u","s","t"," ","b","e"," ","a","n"," ",
      "i","m","a","g","e">>
KeyNotConfigured ==
    <<"L","L","M"," ","A","P","I"," ","k","e","y"," ","n","o","t"," ",
      "c","o","n","f","i","g","u","r","e","d">>

pattern_keywords ==
    << <<"d","o","j","i">>,
       <<"h","a","m","m","e","r">>,
       <<"s","h","o","o","t","i","n","g"," ","s","t","a","r">>,
       <<"e","n","g","u","l","f","i","n","g">>,
       <<"p","i","n"," ","b","a","r">>,
       <<"i","n","s","i","d","e"," ","b","a","r">> >>

KwStopLoss == <<"s","t","o","p"," ","l","o","s","s">>
KwProfit == <<"p","r","o","f","i","t">>
KwBuy == <<"b","u","y">>
KwSell == <<"s","e","l","l">>

ChatHistoryLimit == 100
AnalysisHistoryLimit == 50
DefaultSessionId == "default"

----------------------------------------------------------------------------
(* Inputs *)

SessionIds == {"s1", "s2"}

\* a session_id a client may also send: ChatRequest.session_id and the
\* session_id query parameter are plain str, which admits the empty string
EmptySessionId == ""
Messages == {"m1"}
Filenames == {"chart.png"}

\* UploadFile.content_type: the declared media kind of the uploaded part,
\* or None when the part carries no Content-Type header
NoContentType == [some |-> FALSE]
ContentType(chars) == [some |-> TRUE, v |-> chars]
ContentTypes ==
    { ContentType(<<"i","m","a","g","e","/","p","n","g">>),
      ContentType(<<"t","e","x","t","/","p","l","a","i","n">>),
      NoContentType }

\* an optional request parameter: <<>> when not sent, <<v>> when sent
Absent == <<>>
Sent(v) == <<v>>

\* where the client puts session_id on POST /api/analyze-candlestick:
\* nowhere, in the query string, or in the multipart body next to file
AnalyzeParams ==
    {[query |-> Absent, form |-> Absent]}
    \cup {[query |-> Sent(s), form |-> Absent] : s \in {"s1"}}
    \cup {[query |-> Absent, form |-> Sent(s)] : s \in {"s1"}}

\* texts the model may answer with
Responses ==
    { <<"D","o","j","i",":"," ","B","U","Y",","," ",
        "s","t","o","p"," ","l","o","s","s">> }

\* str(e) of the exceptions chat.send_message may raise
ProviderErrors == { <<"t","i","m","e","o","u","t">> }

\* str(e) of the exceptions insert_one may raise
StoreErrors == { <<"d","b"," ","d","o","w","n">> }

\* os.environ.get('EMERGENT_LLM_KEY'): unset, empty, or a key
ApiKeys == { Absent, Sent(""), Sent("sk-key") }

----------------------------------------------------------------------------
(* Exceptions and HTTP responses *)

Digits == <<"0","1","2","3","4","5","6","7","8","9">>
Digit(d) == Digits[d + 1]

Pad2(n) == <<Digit((n \div 10) % 10), Digit(n % 10)>>
Pad3(n) == <<Digit((n \div 100) % 10)>> \o Pad2(n)
Pad6(n) == Pad3(n \div 1000) \o Pad3(n % 1000)

HTTPException(status_code, detail) ==
    [type |-> "HTTPException", status_code |-> status_code, detail |-> detail]
Exception(msg) == [type |-> "Exception", msg |-> msg]

NoneTypeStartswith ==
    <<"'","N","o","n","e","T","y","p","e","'"," ","o","b","j","e","c","t"," ",
      "h","a","s"," ","n","o"," ","a","t","t","r","i","b","u","t","e"," ",
      "'","s","t","a","r","t","s","w","i","t","h","'">>

\* str(e): an HTTPException prints as "<status>: <detail>"
Str(e) ==
    IF e.type = "HTTPException"
    THEN Pad3(e.status_code) \o <<":"," ">> \o e.detail
    ELSE e.msg

NoResp == [status |-> 0]
ErrorResp(e) == [status |-> e.status_code, detail |-> e.detail]
OkResp(body) == [status |-> 200, body |-> body]

----------------------------------------------------------------------------
(* Timestamps *)

\* datetime.now(timezone.utc) at clock reading clk (minute, second and
\* microsecond of an hour that does not change during a run)
DateTime(clk) ==
    [minute |-> (clk \div 120) % 60,
     second |-> (clk \div 2) % 60,
     microsecond |-> (clk % 2) * 500000]

\* datetime.isoformat(): the fraction is printed only when it is not zero
IsoFormat(dt) ==
    Pad2(dt.minute) \o <<":">> \o Pad2(dt.second)
    \o (IF dt.microsecond = 0 THEN <<>> ELSE <<".">> \o Pad6(dt.microsecond))
    \o <<"+","0","0",":","0","0">>

prepare_for_mongo(data) == [data EXCEPT !.timestamp = IsoFormat(@)]

----------------------------------------------------------------------------
(* Documents *)

\* mutant: the document is filed under the default session
ChatMessage_default(id, session_id, message, response, now) ==
    [id |-> id, session_id |-> DefaultSessionId, message |-> message,
     response |-> response, timestamp |-> DateTime(now)]

ChatMessage(id, session_id, message, response, now) ==
    [id |-> id, session_id |-> session_id, message |-> message,
     response |-> response, timestamp |-> DateTime(now)]

CandlestickAnalysis(id, session_id, filename, analysis, patterns, tags, now) ==
    [id |-> id, session_id |-> session_id, filename |-> filename,
     analysis |-> analysis, patterns_detected |-> patterns,
     indicators |-> <<>>, recommendations |-> tags,
     timestamp |-> DateTime(now)]

NoDoc == [id |-> 0]

----------------------------------------------------------------------------
(* Signal extraction, inline in analyze_candlestick_chart *)

\* mutant: the scan compares the text as written, without lower()
PatternsDetected_cased(analysis) ==
    LET hit(p) == Contains(analysis, p)
        hits == SelectSeq(pattern_keywords, hit)
    IN  SubSeq([i \in 1..Len(hits) |-> Capitalize(hits[i])], 1, Len(hits))

PatternsDetected(analysis) ==
    LET text == Lower(analysis)
        hit(p) == Contains(text, Lower(p))
        hits == SelectSeq(pattern_keywords, hit)
    IN  SubSeq([i \in 1..Len(hits) |-> Capitalize(hits[i])], 1, Len(hits))

\* mutant: "sell" is tested before "buy"
Recommendations_sell(analysis) ==
    LET text == Lower(analysis)
        keys == (IF Contains(text, KwStopLoss) THEN {"risk_management"} ELSE {})
                \cup (IF Contains(text, KwProfit) THEN {"profit_booking"} ELSE {})
                \cup (IF Contains(text, KwBuy) \/ Contains(text, KwSell)
                      THEN {"action"} ELSE {})
    IN  [k \in keys |->
            CASE k = "risk_management" -> "Stop loss recommended"
              [] k = "profit_booking" -> "Profit targets identified"
              [] k = "action" -> IF Contains(text, KwSell)
                                 THEN "Potential sell signal"
                                 ELSE "Potential buy signal"]

Recommendations(analysis) ==
    LET text == Lower(analysis)
        keys == (IF Contains(text, KwStopLoss) THEN {"risk_management"} ELSE {})
                \cup (IF Contains(text, KwProfit) THEN {"profit_booking"} ELSE {})
                \cup (IF Contains(text, KwBuy) \/ Contains(text, KwSell)
                      THEN {"action"} ELSE {})
    IN  [k \in keys |->
            CASE k = "risk_management" -> "Stop loss recommended"
              [] k = "profit_booking" -> "Profit targets identified"
              [] k = "action" -> IF Contains(text, KwBuy)
                                 THEN "Potential buy signal"
                                 ELSE "Potential sell signal"]

----------------------------------------------------------------------------
(* The store's find / sort / to_list *)

\* the characters of an ISO timestamp in code point order: the store
\* compares the timestamp strings, not the instants they denote
AsciiOrder == <<"+", "-", ".", "0", "1", "2", "3", "4", "5", "6", "7", "8",
                "9", ":">>
CharCode == [c \in {AsciiOrder[i] : i \in 1..Len(AsciiOrder)} |->
                CHOOSE i \in 1..Len(AsciiOrder) : AsciiOrder[i] = c]

RECURSIVE StrLessFrom(_, _, _)
StrLessFrom(a, b, i) ==
    IF i > Len(b) THEN FALSE
    ELSE IF i > Len(a) THEN TRUE
    ELSE IF a[i] = b[i] THEN StrLessFrom(a, b, i + 1)
    ELSE CharCode[a[i]] < CharCode[b[i]]

\* string comparison of the store: a < b
StrLess(a, b) == StrLessFrom(a, b, 1)

\* find({"session_id": session_id}), in natural order
Find(coll, session_id) ==
    SelectSeq(coll, LAMBDA d : d.session_id = session_id)

\* the order of documents with equal sort keys is the store's choice
TieOrders == {"natural", "reverse"}

\* sort("timestamp", direction): 1 ascending, -1 descending
Sort(items, direction, tie) ==
    LET n == Len(items)
        before(i, j) ==
            LET a == items[i].timestamp
                b == items[j].timestamp
            IN  IF a = b
                THEN IF tie = "natural" THEN i < j ELSE j < i
                ELSE IF direction = 1 THEN StrLess(a, b) ELSE StrLess(b, a)
        rank == SubSeq([j \in 1..n |->
                    1 + Cardinality({i \in 1..n : i # j /\ before(i, j)})],
                       1, n)
    IN  SubSeq([k \in 1..n |-> items[CHOOSE j \in 1..n : rank[j] = k]], 1, n)

\* to_list(length)
ToList(items, length) == SubSeq(items, 1, Min(Len(items), length))

\* mutant: the chat history is sorted newest first
ListChats_desc(coll, session_id, tie) ==
    ToList(Sort(Find(coll, session_id), -1, tie), ChatHistoryLimit)

\* get_chat_history's query
ListChats(coll, session_id, tie) ==
    ToList(Sort(Find(coll, session_id), 1, tie), ChatHistoryLimit)

\* mutant: the analysis history is sorted oldest first
ListAnalyses_asc(coll, session_id, tie) ==
    ToList(Sort(Find(coll, session_id), 1, tie), AnalysisHistoryLimit)

\* get_analysis_history's query
ListAnalyses(coll, session_id, tie) ==
    ToList(Sort(Find(coll, session_id), -1, tie), AnalysisHistoryLimit)

----------------------------------------------------------------------------
(* Requests *)

PathSessionIds == SessionIds \cup {DefaultSessionId}

\* every session_id a gateway invocation may carry
AllSessionIds == PathSessionIds \cup {EmptySessionId}

\* the session_id query parameters clients send in this run
QueryParams ==
    AnalyzeParams
    \cup {[query |-> Sent(s), form |-> Absent] : s \in env.session_ids \ SessionIds}

\* `not api_key` is true of None and of the empty string
KeyConfigured(api_key) == api_key # Absent /\ api_key[1] # ""

\* a request: its inputs, where it stands, what it did and its response
\*   n: arrival number; gateway, write, read: outcome of the model call, of
\*   insert_one and of the store read; error: str(e) of the exception caught
\*   calls, writes: provider calls and store writes issued by this request
Request(n, kind, session_id) ==
    [n |-> n, kind |-> kind, pc |-> "done",
     session_id |-> session_id,
     message |-> "", filename |-> "", content_type |-> NoContentType,
     params |-> [query |-> Absent, form |-> Absent],
     gateway |-> "none", write |-> "none", read |-> "none", error |-> <<>>,
     text |-> <<>>, doc |-> NoDoc, calls |-> 0, writes |-> 0,
     resp |-> NoResp]

NewReq(kind, session_id) == Request(received + 1, kind, session_id)

Idle == [Request(0, "none", "") EXCEPT !.pc = "idle"]

\* mutant: the validation lets every declared media kind through
IsImage_any(content_type) == TRUE

\* the validation of analyze_candlestick_chart, on a declared media kind
IsImage(content_type) == StartsWith(content_type.v, ImagePrefix)

Slots == 1..MaxInFlight
FreeSlots == {i \in Slots : inflight[i].pc = "idle"}
Pending(kind, pc) ==
    {i \in Slots : inflight[i].kind = kind /\ inflight[i].pc = pc}

\* a new request suspends at its first await, in the lowest free slot
Suspend(req) ==
    /\ FreeSlots # {}
    /\ inflight' = [inflight EXCEPT
                      ![CHOOSE i \in FreeSlots : \A j \in FreeSlots : i <= j] = req]
    /\ UNCHANGED last

\* a new request that answers without suspending
Answer(req) ==
    /\ last' = req
    /\ UNCHANGED inflight

\* a suspended request resumes and suspends again
Resume(i, req) ==
    /\ inflight' = [inflight EXCEPT ![i] = req]
    /\ UNCHANGED last

\* a suspended request resumes and answers
Complete(i, req) ==
    /\ last' = req
    /\ inflight' = [inflight EXCEPT ![i] = Idle]

\* datetime.now(timezone.utc): the clock has advanced by d since it was
\* last read
Elapsed == {d \in 0..MaxTicks : clock + d <= env.clock0 + MaxTicks}
ReadClock(d) == clock' = clock + d

Receive ==
    /\ received < env.maxReq
    /\ received' = received + 1

\* mutant: the except clause answers without the cause
ChatExcept_generic(e) == HTTPException(500, ChatErrorPrefix)

\* chat_with_ai's except clause
ChatExcept(e) == HTTPException(500, ChatErrorPrefix \o Str(e))

\* analyze_candlestick_chart's except clause
AnalyzeExcept(e) == HTTPException(500, AnalysisFailedPrefix \o Str(e))

\* analyze_candlestick_image's except clause: the error becomes the result
ImageExcept(e) == ErrorAnalyzingPrefix \o Str(e)

\* analyze_candlestick_chart's session_id parameter: a plain str parameter
\* with a default is read from the query string, never from the body
SessionIdParam(params) ==
    IF params.query = Absent THEN DefaultSessionId ELSE params.query[1]

\* analyze_candlestick_chart from the extraction to the issue of insert_one
AnalysisDoc(req, analysis, id, now) ==
    prepare_for_mongo(
        CandlestickAnalysis(id, req.session_id, req.filename, analysis,
                            PatternsDetected(analysis),
                            Recommendations(analysis), now))

----------------------------------------------------------------------------
(* POST /api/chat *)

ChatStart(message, session_id) ==
    /\ Receive
    /\ LET req == [NewReq("chat", session_id) EXCEPT !.message = message]
       IN  IF ~KeyConfigured(env.api_key)
           THEN /\ Answer([req EXCEPT
                        !.gateway = "unconfigured",
                        !.error = Str(HTTPException(500, KeyNotConfigured)),
                        !.resp = ErrorResp(ChatExcept(
                                    HTTPException(500, KeyNotConfigured)))])
                /\ UNCHANGED <<providerCalls, handles>>
           ELSE /\ Suspend([req EXCEPT !.pc = "provider", !.calls = 1])
                /\ handles' = [handles EXCEPT ![session_id] = @ + 1]
                /\ providerCalls' = providerCalls + 1
    /\ UNCHANGED <<chat_messages, candlestick_analyses, clock, nextId, env>>

ChatProviderOk(i, response, d) ==
    /\ i \in Pending("chat", "provider")
    /\ LET req == inflight[i]
       IN  Resume(i, [req EXCEPT
               !.pc = "insert", !.gateway = "ok", !.text = response,
               !.writes = 1,
               !.doc = prepare_for_mongo(
                          ChatMessage(nextId, req.session_id, req.message,
                                      response, clock + d))])
    /\ ReadClock(d)
    /\ nextId' = nextId + 1
    /\ UNCHANGED <<chat_messages, candlestick_analyses, received,
                   providerCalls, handles, env>>

\* mutant: after a provider error the call is made once more
ChatProviderFail_retry(i, e) ==
    /\ i \in Pending("chat", "provider")
    /\ IF inflight[i].calls < 2
       THEN /\ Resume(i, [inflight[i] EXCEPT !.calls = @ + 1, !.error = e])
            /\ providerCalls' = providerCalls + 1
       ELSE /\ Complete(i, [inflight[i] EXCEPT
                      !.pc = "done", !.gateway = "failed", !.error = e,
                      !.resp = ErrorResp(ChatExcept(Exception(e)))])
            /\ UNCHANGED providerCalls
    /\ UNCHANGED <<chat_messages, candlestick_analyses, received, clock,
                   nextId, handles, env>>

ChatProviderFail(i, e) ==
    /\ i \in Pending("chat", "provider")
    /\ Complete(i, [inflight[i] EXCEPT
                      !.pc = "done", !.gateway = "failed", !.error = e,
                      !.resp = ErrorResp(ChatExcept(Exception(e)))])
    /\ UNCHANGED <<chat_messages, candlestick_analyses, received, clock,
                   nextId, providerCalls, handles, env>>

\* mutant: the write replaces the session's earlier documents
ChatInsertOk_upsert(i) ==
    /\ i \in Pending("chat", "insert")
    /\ LET req == inflight[i]
       IN  /\ chat_messages' =
                Append(SelectSeq(chat_messages,
                                 LAMBDA d : d.session_id # req.session_id),
                       req.doc)
           /\ Complete(i, [req EXCEPT
                  !.pc = "done", !.write = "ok",
                  !.resp = OkResp([response |-> req.text,
                                   session_id |-> req.session_id])])
    /\ UNCHANGED <<candlestick_analyses, received, clock, nextId,
                   providerCalls, handles, env>>

ChatInsertOk(i) ==
    /\ i \in Pending("chat", "insert")
    /\ LET req == inflight[i]
       IN  /\ chat_messages' = Append(chat_messages, req.doc)
           /\ Complete(i, [req EXCEPT
                  !.pc = "done", !.write = "ok",
                  !.resp = OkResp([response |-> req.text,
                                   session_id |-> req.session_id])])
    /\ UNCHANGED <<candlestick_analyses, received, clock, nextId,
                   providerCalls, handles, env>>

ChatInsertFail(i, e) ==
    /\ i \in Pending("chat", "insert")
    /\ Complete(i, [inflight[i] EXCEPT
                      !.pc = "done", !.write = "failed", !.error = e,
                      !.resp = ErrorResp(ChatExcept(Exception(e)))])
    /\ UNCHANGED <<chat_messages, candlestick_analyses, received, clock,
                   nextId, providerCalls, handles, env>>

----------------------------------------------------------------------------
(* POST /api/analyze-candlestick *)

AnalyzeStart(filename, content_type, params, d) ==
    /\ Receive
    /\ LET req == [NewReq("analyze", SessionIdParam(params)) EXCEPT
                      !.filename = filename, !.content_type = content_type,
                      !.params = params]
       IN  IF ~content_type.some
           THEN \* None has no startswith: AttributeError
                /\ Answer([req EXCEPT
                        !.error = NoneTypeStartswith,
                        !.resp = ErrorResp(AnalyzeExcept(
                                    Exception(NoneTypeStartswith)))])
                /\ d = 0
                /\ UNCHANGED <<clock, nextId, providerCalls, handles>>
           ELSE IF ~IsImage(content_type)
           THEN /\ Answer([req EXCEPT
                        !.error = Str(HTTPException(400, FileMustBeImage)),
                        !.resp = ErrorResp(AnalyzeExcept(
                                    HTTPException(400, FileMustBeImage)))])
                /\ d = 0
                /\ UNCHANGED <<clock, nextId, providerCalls, handles>>
           ELSE IF ~KeyConfigured(env.api_key)
           THEN \* get_llm_chat raises inside analyze_candlestick_image
                /\ LET analysis ==
                          ImageExcept(HTTPException(500, KeyNotConfigured))
                   IN  Suspend([req EXCEPT
                          !.pc = "insert", !.gateway = "unconfigured",
                          !.error = Str(HTTPException(500, KeyNotConfigured)),
                          !.text = analysis, !.writes = 1,
                          !.doc = AnalysisDoc(req, analysis, nextId,
                                              clock + d)])
                /\ ReadClock(d)
                /\ nextId' = nextId + 1
                /\ UNCHANGED <<providerCalls, handles>>
           ELSE /\ Suspend([req EXCEPT !.pc = "provider", !.calls = 1])
                /\ handles' = [handles EXCEPT ![req.session_id] = @ + 1]
                /\ providerCalls' = providerCalls + 1
                /\ d = 0
                /\ UNCHANGED <<clock, nextId>>
    /\ UNCHANGED <<chat_messages, candlestick_analyses, env>>

AnalyzeProviderOk(i, response, d) ==
    /\ i \in Pending("analyze", "provider")
    /\ LET req == inflight[i]
       IN  Resume(i, [req EXCEPT
               !.pc = "insert", !.gateway = "ok", !.text = response,
               !.writes = 1,
               !.doc = AnalysisDoc(req, response, nextId, clock + d)])
    /\ ReadClock(d)
    /\ nextId' = nextId + 1
    /\ UNCHANGED <<chat_messages, candlestick_analyses, received,
                   providerCalls, handles, env>>

AnalyzeProviderFail(i, e, d) ==
    /\ i \in Pending("analyze", "provider")
    /\ LET req == inflight[i]
           analysis == ImageExcept(Exception(e))
       IN  Resume(i, [req EXCEPT
               !.pc = "insert", !.gateway = "failed", !.error = e,
               !.text = analysis,
               !.writes = 1,
               !.doc = AnalysisDoc(req, analysis, nextId, clock + d)])
    /\ ReadClock(d)
    /\ nextId' = nextId + 1
    /\ UNCHANGED <<chat_messages, candlestick_analyses, received,
                   providerCalls, handles, env>>

AnalyzeInsertOk(i) ==
    /\ i \in Pending("analyze", "insert")
    /\ LET req == inflight[i]
       IN  /\ candlestick_analyses' = Append(candlestick_analyses, req.doc)
           /\ Complete(i, [req EXCEPT
                  !.pc = "done", !.write = "ok",
                  !.resp = OkResp(
                      [analysis |-> req.text,
                       patterns_detected |-> req.doc.patterns_detected,
                       recommendations |-> req.doc.recommendations,
                       session_id |-> req.session_id,
                       filename |-> req.filename])])
    /\ UNCHANGED <<chat_messages, received, clock, nextId, providerCalls,
                   handles, env>>

AnalyzeInsertFail(i, e) ==
    /\ i \in Pending("analyze", "insert")
    /\ Complete(i, [inflight[i] EXCEPT
                      !.pc = "done", !.write = "failed", !.error = e,
                      !.resp = ErrorResp(AnalyzeExcept(Exception(e)))])
    /\ UNCHANGED <<chat_messages, candlestick_analyses, received, clock,
                   nextId, providerCalls, handles, env>>

----------------------------------------------------------------------------
(* GET /api/chat-history/{session_id}, GET /api/analysis-history/{session_id} *)

GetChatHistory(session_id, tie) ==
    /\ Receive
    /\ Answer([NewReq("chat_history", session_id) EXCEPT
             !.read = "ok",
             !.resp = OkResp([chats |-> ListChats(chat_messages, session_id, tie),
                              session_id |-> session_id])])
    /\ UNCHANGED <<chat_messages, candlestick_analyses, clock, nextId,
                   providerCalls, handles, env>>

\* mutant: the read failure is propagated to the caller
GetChatHistoryFail_raises(session_id) ==
    /\ Receive
    /\ Answer([NewReq("chat_history", session_id) EXCEPT
             !.read = "failed",
             !.resp = ErrorResp(HTTPException(500, <<>>))])
    /\ UNCHANGED <<chat_messages, candlestick_analyses, clock, nextId,
                   providerCalls, handles, env>>

GetChatHistoryFail(session_id) ==
    /\ Receive
    /\ Answer([NewReq("chat_history", session_id) EXCEPT
             !.read = "failed",
             !.resp = OkResp([chats |-> <<>>, session_id |-> session_id])])
    /\ UNCHANGED <<chat_messages, candlestick_analyses, clock, nextId,
                   providerCalls, handles, env>>

GetAnalysisHistory(session_id, tie) ==
    /\ Receive
    /\ Answer([NewReq("analysis_history", session_id) EXCEPT
             !.read = "ok",
             !.resp = OkResp(
                 [analyses |-> ListAnalyses(candlestick_analyses, session_id, tie),
                  session_id |-> session_id])])
    /\ UNCHANGED <<chat_messages, candlestick_analyses, clock, nextId,
                   providerCalls, handles, env>>

GetAnalysisHistoryFail(session_id) ==
    /\ Receive
    /\ Answer([NewReq("analysis_history", session_id) EXCEPT
             !.read = "failed",
             !.resp = OkResp([analyses |-> <<>>, session_id |-> session_id])])
    /\ UNCHANGED <<chat_messages, candlestick_analyses, clock, nextId,
                   providerCalls, handles, env>>

----------------------------------------------------------------------------
(* Specification *)

Init ==
    /\ chat_messages = <<>>
    /\ candlestick_analyses = <<>>
    /\ inflight = [i \in Slots |-> Idle]
    /\ last = Idle
    /\ received = 0
    /\ clock = 0
    /\ nextId = 1
    /\ providerCalls = 0
    /\ handles = [s \in AllSessionIds |-> 0]
    /\ \E k \in ApiKeys :
          env = [api_key |-> k, maxReq |-> MaxRequests, clock0 |-> 0,
                 session_ids |-> SessionIds, responses |-> Responses]

Next ==
    \/ \E m \in Messages, s \in env.session_ids : ChatStart(m, s)
    \/ \E i \in Slots, t \in env.responses, d \in Elapsed :
          ChatProviderOk(i, t, d)
    \/ \E i \in Slots, e \in ProviderErrors : ChatProviderFail(i, e)
    \/ \E i \in Slots : ChatInsertOk(i)
    \/ \E i \in Slots, e \in StoreErrors : ChatInsertFail(i, e)
    \/ \E f \in Filenames, c \in ContentTypes, p \in QueryParams,
          d \in Elapsed : AnalyzeStart(f, c, p, d)
    \/ \E i \in Slots, t \in env.responses, d \in Elapsed :
          AnalyzeProviderOk(i, t, d)
    \/ \E i \in Slots, e \in ProviderErrors, d \in Elapsed :
          AnalyzeProviderFail(i, e, d)
    \/ \E i \in Slots : AnalyzeInsertOk(i)
    \/ \E i \in Slots, e \in StoreErrors : AnalyzeInsertFail(i, e)
    \/ \E s \in PathSessionIds, tie \in TieOrders : GetChatHistory(s, tie)
    \/ \E s \in PathSessionIds : GetChatHistoryFail(s)
    \/ \E s \in PathSessionIds, tie \in TieOrders : GetAnalysisHistory(s, tie)
    \/ \E s \in PathSessionIds : GetAnalysisHistoryFail(s)

Spec == Init /\ [][Next]_vars

----------------------------------------------------------------------------
(* A long-running server: the collections already hold about as many      *)
(* documents of session "s1" as one history read returns, written by      *)
(* earlier turns of which two at a time overlapped (so insertion order and *)
(* timestamp order differ, and some timestamps coincide).                  *)

\* position in timestamp order of the i-th inserted document
BulkSwap(i) == IF i % 2 = 1 THEN i + 1 ELSE i - 1

\* clock reading of the document at timestamp position x
BulkReading(x) ==
    LET y == IF x % 7 = 0 THEN x - 1 ELSE x
    IN  y + (y \div 4)

BulkClock(i) == BulkReading(BulkSwap(i))

BulkText == CHOOSE t \in Responses : TRUE

BulkChats(n) ==
    [i \in 1..n |->
        prepare_for_mongo(
            ChatMessage(i, IF i % 40 = 0 THEN "s2" ELSE "s1", "m1",
                        BulkText, BulkClock(i)))]

BulkAnalyses(n, firstId) ==
    [i \in 1..n |->
        AnalysisDoc([session_id |-> IF i % 40 = 0 THEN DefaultSessionId
                                     ELSE "s1",
                     filename |-> "chart.png"],
                    BulkText, firstId + i - 1, BulkClock(i))]

InitBulk ==
    \E k \in 0..(BulkExtra + 1) :
        LET nc == ChatHistoryLimit + 1 + k
            na == AnalysisHistoryLimit + k
        IN  /\ chat_messages = BulkChats(nc)
            /\ candlestick_analyses = BulkAnalyses(na, nc + 1)
            /\ inflight = [i \in Slots |-> Idle]
            /\ last = Idle
            /\ received = 0
            /\ clock = BulkReading(nc + 1)
            /\ nextId = nc + na + 1
            /\ providerCalls = nc + na
            /\ handles =
                 [s \in AllSessionIds |->
                    Cardinality({i \in 1..nc : chat_messages[i].session_id = s})
                    + Cardinality({i \in 1..na :
                                     candlestick_analyses[i].session_id = s})]
            /\ env = [api_key |-> Sent("sk-key"), maxReq |-> BulkRequests,
                      clock0 |-> BulkReading(nc + 1),
                      session_ids |-> SessionIds, responses |-> Responses]

SpecBulk == InitBulk /\ [][Next]_vars

----------------------------------------------------------------------------
(* The signal extraction on its own: two analysis uploads are waiting for *)
(* the model, which answers both with the same text, drawn from the texts *)
(* that a few phrases make.                                                *)

ExtractWords == 2     \* phrases in a response text

\* phrases of a model response: pattern names in several spellings, parts
\* of pattern names, the words of the recommendation rules, and a word
\* the extraction does not know
Phrases ==
    { <<"D","o","j","i">>,
      <<"H","A","M","M","E","R">>,
      <<"s","h","o","o","t","i","n","g"," ","s","t","a","r">>,
      <<"E","n","g","u","l","f","i","n","g">>,
      <<"p","i","n">>,
      <<"b","a","r">>,
      <<"i","n","s","i","d","e">>,
      <<"B","U","Y">>,
      <<"s","e","l","l">>,
      <<"S","t","o","p"," ","l","o","s","s">>,
      <<"p","r","o","f","i","t">>,
      <<"h","o","l","d">> }

\* the texts of at most n phrases, separated by single spaces
RECURSIVE TextsOf(_)
TextsOf(n) ==
    IF n = 0 THEN { <<>> }
    ELSE LET shorter == TextsOf(n - 1)
         IN  shorter \cup
             { IF t = <<>> THEN p ELSE t \o <<" ">> \o p :
                 t \in shorter, p \in Phrases }

ExtractTexts == TextsOf(ExtractWords)

\* an analysis upload suspended at chat.send_message
Uploaded(n, session_id) ==
    [Request(n, "analyze", session_id) EXCEPT
        !.pc = "provider", !.calls = 1, !.filename = "chart.png",
        !.content_type = ContentType(<<"i","m","a","g","e","/","p","n","g">>),
        !.params = [query |-> IF session_id = DefaultSessionId
                              THEN Absent ELSE Sent(session_id),
                    form |-> Absent]]

InitExtract ==
    \E t \in ExtractTexts :
        /\ chat_messages = <<>>
        /\ candlestick_analyses = <<>>
        /\ inflight = [i \in Slots |->
                         CASE i = 1 -> Uploaded(1, DefaultSessionId)
                           [] i = 2 -> Uploaded(2, "s1")
                           [] OTHER -> Idle]
        /\ last = Idle
        /\ received = 2
        /\ clock = 0
        /\ nextId = 1
        /\ providerCalls = 2
        /\ handles = [s \in AllSessionIds |->
                        IF s \in {DefaultSessionId, "s1"} THEN 1 ELSE 0]
        /\ env = [api_key |-> Sent("sk-key"), maxReq |-> 2, clock0 |-> 0,
                  session_ids |-> SessionIds, responses |-> {t}]

\* the model answers and the store accepts: the steps that run and publish
\* the extraction
NextExtract ==
    \/ \E i \in Slots, t \in env.responses, d \in Elapsed :
          AnalyzeProviderOk(i, t, d)
    \/ \E i \in Slots : AnalyzeInsertOk(i)

SpecExtract == InitExtract /\ [][NextExtract]_vars

----------------------------------------------------------------------------
(* Clients that also send the empty session_id *)

AnyIdRequests == 1    \* requests received in a run of SpecAnyId

InitAnyId ==
    /\ chat_messages = <<>>
    /\ candlestick_analyses = <<>>
    /\ inflight = [i \in Slots |-> Idle]
    /\ last = Idle
    /\ received = 0
    /\ clock = 0
    /\ nextId = 1
    /\ providerCalls = 0
    /\ handles = [s \in AllSessionIds |-> 0]
    /\ \E k \in ApiKeys :
          env = [api_key |-> k, maxReq |-> AnyIdRequests, clock0 |-> 0,
                 session_ids |-> SessionIds \cup {EmptySessionId},
                 responses |-> Responses]

SpecAnyId == InitAnyId /\ [][Next]_vars

----------------------------------------------------------------------------
(* A server whose awaits return: chat.send_message and insert_one each     *)
(* give a result or raise, so the event loop resumes every suspended      *)
(* handler.                                                                *)

LiveRequests == 1     \* requests received in a run of SpecLive

\* the await on chat.send_message of the request in slot i returns or raises
ProviderAnswers(i) ==
    \/ \E t \in env.responses, d \in Elapsed : ChatProviderOk(i, t, d)
    \/ \E e \in ProviderErrors : ChatProviderFail(i, e)
    \/ \E t \in env.responses, d \in Elapsed : AnalyzeProviderOk(i, t, d)
    \/ \E e \in ProviderErrors, d \in Elapsed : AnalyzeProviderFail(i, e, d)

\* the await on insert_one of the request in slot i returns or raises
StoreAnswers(i) ==
    \/ ChatInsertOk(i)
    \/ \E e \in StoreErrors : ChatInsertFail(i, e)
    \/ AnalyzeInsertOk(i)
    \/ \E e \in StoreErrors : AnalyzeInsertFail(i, e)

InitLive ==
    /\ chat_messages = <<>>
    /\ candlestick_analyses = <<>>
    /\ inflight = [i \in Slots |-> Idle]
    /\ last = Idle
    /\ received = 0
    /\ clock = 0
    /\ nextId = 1
    /\ providerCalls = 0
    /\ handles = [s \in AllSessionIds |-> 0]
    /\ \E k \in ApiKeys :
          env = [api_key |-> k, maxReq |-> LiveRequests, clock0 |-> 0,
                 session_ids |-> SessionIds, responses |-> Responses]

SpecLive ==
    /\ InitLive
    /\ [][Next]_vars
    /\ \A i \in Slots : WF_vars(ProviderAnswers(i)) /\ WF_vars(StoreAnswers(i))

----------------------------------------------------------------------------
(* Vocabulary of the properties *)

\* the step completed a request: `last` now holds it
Completed == last'.n # last.n

IsError(resp) == resp.status \in 400..599

\* the request declared a media kind that does not start with "image/"
NonImage(req) ==
    /\ req.content_type.some
    /\ ~StartsWith(req.content_type.v, ImagePrefix)

\* the documents of a collection that carry the given id
WithId(coll, id) == {i \in 1..Len(coll) : coll[i].id = id}

\* the documents of a collection that belong to the session
OfSession(coll, session_id) ==
    {i \in 1..Len(coll) : coll[i].session_id = session_id}

\* the document is one of the documents a read returned
Returned(list, doc) == \E i \in 1..Len(list) : list[i] = doc

----------------------------------------------------------------------------
(* C1 *)

\* C1: an image analysis request whose model call fails (provider error,
\* timeout, missing credential) ends in an error response and leaves no
\* document in candlestick_analyses; every stored analysis carries a text
\* the model answered.
C1_AnalysisTurnAtomic ==
    /\ (last.kind = "analyze" /\ last.gateway \in {"failed", "unconfigured"})
          => /\ IsError(last.resp)
             /\ WithId(candlestick_analyses, last.doc.id) = {}
    /\ \A i \in 1..Len(candlestick_analyses) :
          candlestick_analyses[i].analysis \in Responses

----------------------------------------------------------------------------
(* C2 *)

\* C2: an analysis request whose declared media kind does not start with
\* "image/" is answered with status 400.
C2_NonImageIsClientError ==
    (last.kind = "analyze" /\ NonImage(last)) => last.resp.status = 400

----------------------------------------------------------------------------
(* C3 *)

\* C3: an analysis request whose declared media kind does not start with
\* "image/" is answered with an error in the step in which it arrives,
\* having issued no provider call and no store write; that step leaves the
\* provider call count and both collections as they were, so every
\* analysis-history read returns what it returned before.
C3_NonImageFailsBeforeProvider ==
    [][ (Completed /\ last'.kind = "analyze" /\ NonImage(last'))
          => /\ last'.n = received'
             /\ received' = received + 1
             /\ IsError(last'.resp)
             /\ last'.calls = 0
             /\ last'.writes = 0
             /\ providerCalls' = providerCalls
             /\ handles' = handles
             /\ chat_messages' = chat_messages
             /\ candlestick_analyses' = candlestick_analyses
             /\ \A s \in PathSessionIds, tie \in TieOrders :
                   ListAnalyses(candlestick_analyses', s, tie)
                     = ListAnalyses(candlestick_analyses, s, tie) ]_vars

\* a non-image upload was rejected while the store held an analysis and
\* the provider had been called
C3_Witness ==
    /\ last.kind = "analyze"
    /\ NonImage(last)
    /\ IsError(last.resp)
    /\ Len(candlestick_analyses) > 0
    /\ providerCalls > 0

----------------------------------------------------------------------------
(* C4 *)

\* C4: when insert_one fails after a successful model call, the turn is
\* still answered with the success envelope carrying the model's response.
C4_StoreFailureStillAnswers ==
    (last.kind \in {"chat", "analyze"} /\ last.gateway = "ok"
        /\ last.write = "failed")
      => /\ last.resp.status = 200
         /\ (last.kind = "chat" => last.resp.body.response = last.text)
         /\ (last.kind = "analyze" => last.resp.body.analysis = last.text)

----------------------------------------------------------------------------
(* C5 *)

\* C5: a successful analysis request that sends session_id s in the
\* multipart body is answered with session_id s, its stored document
\* carries session_id s, and the analysis history of s returns it.
C5_BodySessionIdKept ==
    (last.kind = "analyze" /\ last.gateway = "ok" /\ last.resp.status = 200
        /\ last.params.form # Absent)
      => LET s == last.params.form[1]
         IN  /\ last.resp.body.session_id = s
             /\ last.doc.session_id = s
             /\ \A tie \in TieOrders :
                   Returned(ListAnalyses(candlestick_analyses, s, tie),
                            last.doc)

----------------------------------------------------------------------------
(* Reading a stored timestamp back *)

DigitValue(c) == CHOOSE d \in 0..9 : Digits[d + 1] = c
Number2(ts, at) == 10 * DigitValue(ts[at]) + DigitValue(ts[at + 1])

\* the instant, in microseconds, that a stored ISO timestamp denotes
Instant(ts) ==
    (Number2(ts, 1) * 60 + Number2(ts, 4)) * 1000000
    + (IF ts[6] = "."
       THEN Number2(ts, 7) * 10000 + Number2(ts, 9) * 100 + Number2(ts, 11)
       ELSE 0)

\* a read returned `list` for the session from the collection `coll`:
\* documents of the collection, each once, all of the session
ReadOf(list, coll, session_id) ==
    /\ \A i \in 1..Len(list) :
          /\ list[i].session_id = session_id
          /\ \E j \in OfSession(coll, session_id) : coll[j] = list[i]
    /\ \A i, j \in 1..Len(list) : i # j => list[i].id # list[j].id

Oldest(list) ==
    \A i \in 1..(Len(list) - 1) :
        Instant(list[i].timestamp) <= Instant(list[i + 1].timestamp)

Newest(list) ==
    \A i \in 1..(Len(list) - 1) :
        Instant(list[i].timestamp) >= Instant(list[i + 1].timestamp)

\* the documents of the session that the read left out
LeftOut(list, coll, session_id) ==
    {j \in OfSession(coll, session_id) : ~Returned(list, coll[j])}

----------------------------------------------------------------------------
(* C6 *)

NeverUsedIsEmpty ==
    \A s \in PathSessionIds :
        OfSession(chat_messages, s) = {}
          => \A tie \in TieOrders : ListChats(chat_messages, s, tie) = <<>>

ChatTurnRecorded ==
    /\ last.resp.status = 200
    /\ last.resp.body.session_id = last.session_id
    /\ last.resp.body.response = last.text
    /\ last.writes = 1
    /\ Cardinality(WithId(chat_messages, last.doc.id)) = 1
    /\ \A i \in WithId(chat_messages, last.doc.id) :
          /\ chat_messages[i].session_id = last.session_id
          /\ chat_messages[i].message = last.message
          /\ chat_messages[i].response = last.text

ChatTurnListed ==
    \A tie \in TieOrders :
        Returned(ListChats(chat_messages, last.session_id, tie), last.doc)

----------------------------------------------------------------------------
(* C7 *)

----------------------------------------------------------------------------
(* C8 *)

----------------------------------------------------------------------------
(* C9 *)

\* C9: a history request whose store read fails is answered with status
\* 200, an empty list and the requested session_id, and its step leaves
\* both collections and the provider untouched.
C9_ReadFailureDegrades ==
    [][ (Completed /\ last'.kind \in {"chat_history", "analysis_history"}
            /\ last'.read = "failed")
          => /\ last'.resp.status = 200
             /\ last'.resp.body.session_id = last'.session_id
             /\ last'.kind = "chat_history" => last'.resp.body.chats = <<>>
             /\ last'.kind = "analysis_history"
                  => last'.resp.body.analyses = <<>>
             /\ last'.calls = 0
             /\ last'.writes = 0
             /\ chat_messages' = chat_messages
             /\ candlestick_analyses' = candlestick_analyses
             /\ providerCalls' = providerCalls
             /\ handles' = handles ]_vars

\* the read of a session that has documents failed
C9_Witness ==
    /\ last.read = "failed"
    /\ last.resp.status = 200
    /\ \/ /\ last.kind = "chat_history"
          /\ OfSession(chat_messages, last.session_id) # {}
       \/ /\ last.kind = "analysis_history"
          /\ OfSession(candlestick_analyses, last.session_id) # {}

----------------------------------------------------------------------------
(* C10 *)

\* C10: a chat request whose provider call fails or times out is answered
\* with status 500 and a detail that carries the message of the error,
\* and neither it nor the step that answers it writes to the store.
C10_ChatFailure ==
    [][ (Completed /\ last'.kind = "chat" /\ last'.gateway = "failed")
          => /\ last'.resp.status = 500
             /\ last'.error \in ProviderErrors
             /\ last'.resp.detail = ChatErrorPrefix \o last'.error
             /\ last'.writes = 0
             /\ last'.doc = NoDoc
             /\ chat_messages' = chat_messages
             /\ candlestick_analyses' = candlestick_analyses ]_vars

\* a chat request failed at the provider while the store held a ChatTurn
C10_Witness ==
    /\ last.kind = "chat"
    /\ last.gateway = "failed"
    /\ last.resp.status = 500
    /\ Len(chat_messages) > 0

----------------------------------------------------------------------------
(* C11 *)

\* C11: a chat or analysis request received while the provider credential
\* is not configured is answered with a server error, has issued no
\* provider call and no store write, and has left no document in either
\* collection.
C11_MissingCredentialFails ==
    (last.kind \in {"chat", "analyze"} /\ last.gateway = "unconfigured")
      => /\ last.resp.status \in 500..599
         /\ last.calls = 0
         /\ last.writes = 0
         /\ WithId(chat_messages, last.doc.id) = {}
         /\ WithId(candlestick_analyses, last.doc.id) = {}

----------------------------------------------------------------------------
(* C12 *)

\* C12: at most one provider-session handle (LlmChat object) is ever
\* created per session_id: the first gateway invocation of a session
\* creates it and the later ones reuse it.
C12_OneHandlePerSession ==
    \A s \in DOMAIN handles : handles[s] <= 1

----------------------------------------------------------------------------
(* C13 *)

\* the analysis documents built so far: waiting for insert_one, or stored
ExtractedDocs ==
    { inflight[i].doc : i \in Pending("analyze", "insert") }
    \cup { candlestick_analyses[i] : i \in 1..Len(candlestick_analyses) }

\* the name is the vocabulary term with its first letter in upper case
NameOf(name, term) ==
    /\ Len(name) = Len(term)
    /\ name[1] \in {UpperChars[i] : i \in 1..26}
    /\ \A i \in 1..Len(term) : LowerChar(name[i]) = term[i]
    /\ \A i \in 2..Len(term) : name[i] = term[i]

\* the place in the vocabulary list of the term a name stands for
TermOf(name) ==
    CHOOSE k \in 1..Len(pattern_keywords) : NameOf(name, pattern_keywords[k])

\* C13: the detected patterns of every analysis document are exactly the
\* vocabulary terms that occur in the lower-cased text, each once, with the
\* first letter in upper case, in the order of the vocabulary list; two
\* documents built from the same text carry the same patterns, and the
\* response carries the patterns of the stored document.
C13_PatternsExact ==
    /\ \A doc \in ExtractedDocs :
          LET text == Lower(doc.analysis)
              found == doc.patterns_detected
          IN  /\ \A k \in 1..Len(pattern_keywords) :
                    Contains(text, pattern_keywords[k])
                      <=> \E i \in 1..Len(found) :
                             NameOf(found[i], pattern_keywords[k])
              /\ \A i \in 1..Len(found) :
                    \E k \in 1..Len(pattern_keywords) :
                        NameOf(found[i], pattern_keywords[k])
              /\ \A i, j \in 1..Len(found) :
                    i < j => TermOf(found[i]) < TermOf(found[j])
    /\ \A d1, d2 \in ExtractedDocs :
          d1.analysis = d2.analysis
            => d1.patterns_detected = d2.patterns_detected
    /\ (last.kind = "analyze" /\ last.resp.status = 200)
          => last.resp.body.patterns_detected = last.doc.patterns_detected

\* both uploads were answered with "HAMMER Doji", in which the later
\* vocabulary term comes first and in capitals, and both documents are
\* stored with the patterns Doji, Hammer
C13_Witness ==
    /\ Len(candlestick_analyses) = 2
    /\ \A i \in 1..2 :
          /\ candlestick_analyses[i].analysis
               = <<"H","A","M","M","E","R"," ","D","o","j","i">>
          /\ candlestick_analyses[i].patterns_detected
               = << <<"D","o","j","i">>, <<"H","a","m","m","e","r">> >>

----------------------------------------------------------------------------
(* C14 *)

TagKeys == {"risk_management", "profit_booking", "action"}

\* the tag is in the mapping with the given value
HasTag(tags, key, value) == key \in DOMAIN tags /\ tags[key] = value

\* the recommendation tags of a document are what the rules give for the
\* text: risk management iff "stop loss", profit booking iff "profit",
\* action buy iff "buy", action sell iff "sell" without "buy", no action
\* iff neither; never a buy and a sell signal together
TagsOf(doc, text) ==
    LET tags == doc.recommendations
        buy == \E k \in DOMAIN tags : tags[k] = "Potential buy signal"
        sell == \E k \in DOMAIN tags : tags[k] = "Potential sell signal"
    IN  /\ DOMAIN tags \subseteq TagKeys
        /\ HasTag(tags, "risk_management", "Stop loss recommended")
             <=> Contains(text, KwStopLoss)
        /\ "risk_management" \in DOMAIN tags <=> Contains(text, KwStopLoss)
        /\ HasTag(tags, "profit_booking", "Profit targets identified")
             <=> Contains(text, KwProfit)
        /\ "profit_booking" \in DOMAIN tags <=> Contains(text, KwProfit)
        /\ HasTag(tags, "action", "Potential buy signal")
             <=> Contains(text, KwBuy)
        /\ HasTag(tags, "action", "Potential sell signal")
             <=> (Contains(text, KwSell) /\ ~Contains(text, KwBuy))
        /\ "action" \notin DOMAIN tags
             <=> (~Contains(text, KwBuy) /\ ~Contains(text, KwSell))
        /\ ~(buy /\ sell)

\* C14 as stated: the tags of every analysis document follow the rules,
\* the words being looked for in the text as the model wrote it.
C14_Original ==
    \A doc \in ExtractedDocs : TagsOf(doc, doc.analysis)

\* C14 as amended: the tags of every analysis document follow the rules,
\* the words being looked for without regard to letter case (in the
\* lower-cased text); the response carries the tags of the document.
C14_TagsExact ==
    /\ \A doc \in ExtractedDocs : TagsOf(doc, Lower(doc.analysis))
    /\ (last.kind = "analyze" /\ last.resp.status = 200)
          => last.resp.body.recommendations = last.doc.recommendations

\* both uploads were answered with "sell BUY" and the first stored
\* document carries the buy signal, although "sell" comes first and
\* "buy" is in capitals
C14_Witness ==
    /\ Len(candlestick_analyses) = 2
    /\ candlestick_analyses[1].analysis = <<"s","e","l","l"," ","B","U","Y">>
    /\ candlestick_analyses[1].recommendations
         = [k \in {"action"} |-> "Potential buy signal"]

----------------------------------------------------------------------------
(* C15 *)

\* C15: every document of chat_messages and of candlestick_analyses has a
\* session_id that is not the empty string, whatever session_id the
\* clients send.
C15_SessionIdNeverEmpty ==
    /\ \A i \in 1..Len(chat_messages) :
          chat_messages[i].session_id # EmptySessionId
    /\ \A i \in 1..Len(candlestick_analyses) :
          candlestick_analyses[i].session_id # EmptySessionId

----------------------------------------------------------------------------
(* C16 *)

\* the collection b holds the documents of a, unchanged and in place
Extends(a, b) ==
    /\ Len(a) <= Len(b)
    /\ \A i \in 1..Len(a) : b[i] = a[i]

\* the collection that holds the documents of the request's kind
CollectionOf(req, chats, analyses) ==
    IF req.kind = "chat" THEN chats ELSE analyses

\* C16: no step modifies or removes a document of either collection (each
\* step leaves both collections as they were or appends to them), and a
\* turn whose insert was acknowledged has its document in its collection,
\* once; so an acknowledged document is in the store in every later state,
\* however the turns interleave.
C16_AppendOnly ==
    [][ /\ Extends(chat_messages, chat_messages')
        /\ Extends(candlestick_analyses, candlestick_analyses')
        /\ Len(chat_messages') + Len(candlestick_analyses')
             <= Len(chat_messages) + Len(candlestick_analyses) + 1
        /\ (last'.kind \in {"chat", "analyze"} /\ last'.write = "ok")
              => LET coll == CollectionOf(last', chat_messages',
                                          candlestick_analyses')
                 IN  /\ Cardinality(WithId(coll, last'.doc.id)) = 1
                     /\ \A i \in WithId(coll, last'.doc.id) :
                           coll[i] = last'.doc ]_vars

\* two chat turns of one session overlapped and both documents are
\* stored: the turn that built its document second was written first
C16_Witness ==
    /\ Len(chat_messages) = 2
    /\ chat_messages[1].session_id = chat_messages[2].session_id
    /\ chat_messages[1].id > chat_messages[2].id
    /\ last.kind = "chat"
    /\ last.write = "ok"

----------------------------------------------------------------------------
(* C17 *)

TurnKinds == {"chat", "analyze"}
HistoryKinds == {"chat_history", "analysis_history"}

\* request n has been received and no handler of it is suspended
Terminal(n) ==
    /\ received >= n
    /\ \A i \in Slots : inflight[i].n # n

Stored == Len(chat_messages) + Len(candlestick_analyses)

\* C17: every request received is answered (with success or with an
\* error) and its handler is gone; a request is answered having issued at
\* most one provider call and at most one store write; a provider call is
\* issued only in the step in which its request arrives, never again after
\* an error, and a document is stored only in the step that answers its
\* turn; a history request issues no provider call and no store write.
C17_SinglePass ==
    /\ \A n \in 1..LiveRequests : (received >= n) ~> Terminal(n)
    /\ [][ /\ Completed
             => /\ last'.pc = "done"
                /\ last'.resp.status = 200 \/ IsError(last'.resp)
                /\ last'.calls <= 1
                /\ last'.writes <= 1
                /\ last'.kind \in HistoryKinds
                     => /\ last'.calls = 0
                        /\ last'.writes = 0
                        /\ providerCalls' = providerCalls
                        /\ chat_messages' = chat_messages
                        /\ candlestick_analyses' = candlestick_analyses
           /\ \A i \in Slots :
                 inflight'[i].calls <= 1 /\ inflight'[i].writes <= 1
           /\ providerCalls' \in {providerCalls, providerCalls + 1}
           /\ providerCalls' # providerCalls
                => /\ received' = received + 1
                   /\ \E i \in Slots :
                         /\ inflight'[i].n = received'
                         /\ inflight'[i].kind \in TurnKinds
                         /\ inflight'[i].calls = 1
           /\ Stored' \in {Stored, Stored + 1}
           /\ Stored' # Stored
                => /\ Completed
                   /\ last'.kind \in TurnKinds
                   /\ last'.writes = 1
           /\ providerCalls' <= received'
           /\ Stored' <= received' ]_vars

\* a turn made its provider call and its store write, the write failed,
\* the turn was answered with an error and nothing is suspended
C17_Witness ==
    /\ last.kind \in TurnKinds
    /\ last.write = "failed"
    /\ IsError(last.resp)
    /\ last.calls = 1
    /\ last.writes = 1
    /\ providerCalls = 1
    /\ Terminal(last.n)

====
